---- MODULE Spec2Model ----
(***************************************************************************)
(* Bowyer-Watson Delaunay triangulation of christianzski/delaunay          *)
(* (src/src/geometry.cpp, src/src/geometry.h).                             *)
(*                                                                         *)
(* The program computes on C++ doubles.  The model keeps the arithmetic    *)
(* of the build (-O2, no fast-math: IEEE 754 binary64, round to nearest,   *)
(* ties to even): a double is a sign, a natural mantissa of at most        *)
(* MantBits bits and a binary exponent, or an infinity, or NaN.  The       *)
(* mantissa is a little-endian sequence of limbs below LimbBase, because   *)
(* TLC's integers are 32 bits wide.  Exponents stay far inside the         *)
(* binary64 range for the inputs drawn here, so overflow to infinity and   *)
(* subnormal results are not modelled.                                     *)
(***************************************************************************)
EXTENDS Integers, Sequences, FiniteSets

(***************************************************************************)
(* Natural numbers of any size: <<>> is 0, limb 1 is the least significant *)
(* and the last limb is never 0.                                           *)
(***************************************************************************)
LimbBase == 2 ^ 14

RECURSIVE NatBitLen(_)
NatBitLen(n) == IF n = 0 THEN 0 ELSE 1 + NatBitLen(n \div 2)

LimbBits == NatBitLen(LimbBase) - 1

RECURSIVE BFromNat(_)
BFromNat(n) == IF n = 0 THEN <<>> ELSE <<n % LimbBase>> \o BFromNat(n \div LimbBase)

RECURSIVE BTrim(_)
BTrim(a) ==
    IF a = <<>> THEN <<>>
    ELSE IF a[Len(a)] = 0 THEN BTrim(SubSeq(a, 1, Len(a) - 1)) ELSE a

BLimb(a, i) == IF i <= Len(a) THEN a[i] ELSE 0

RECURSIVE BCmpFrom(_, _, _)
BCmpFrom(a, b, i) ==
    IF i = 0 THEN 0
    ELSE IF a[i] < b[i] THEN -1
    ELSE IF a[i] > b[i] THEN 1
    ELSE BCmpFrom(a, b, i - 1)

\* -1, 0 or 1 as a < b, a = b, a > b
BCmp(a, b) ==
    IF Len(a) < Len(b) THEN -1
    ELSE IF Len(a) > Len(b) THEN 1
    ELSE BCmpFrom(a, b, Len(a))

RECURSIVE BAddFrom(_, _, _, _)
BAddFrom(a, b, i, carry) ==
    IF i > Len(a) /\ i > Len(b)
    THEN (IF carry = 0 THEN <<>> ELSE <<carry>>)
    ELSE LET s == BLimb(a, i) + BLimb(b, i) + carry
         IN  <<s % LimbBase>> \o BAddFrom(a, b, i + 1, s \div LimbBase)

BAdd(a, b) == BAddFrom(a, b, 1, 0)

RECURSIVE BSubFrom(_, _, _, _)
BSubFrom(a, b, i, borrow) ==
    IF i > Len(a) THEN <<>>
    ELSE LET d == a[i] - BLimb(b, i) - borrow
         IN  IF d < 0
             THEN <<d + LimbBase>> \o BSubFrom(a, b, i + 1, 1)
             ELSE <<d>> \o BSubFrom(a, b, i + 1, 0)

\* a - b, for a >= b
BSub(a, b) == BTrim(BSubFrom(a, b, 1, 0))

RECURSIVE BMulSmallFrom(_, _, _, _)
BMulSmallFrom(a, k, i, carry) ==
    IF i > Len(a) THEN (IF carry = 0 THEN <<>> ELSE <<carry>>)
    ELSE LET p == a[i] * k + carry
         IN  <<p % LimbBase>> \o BMulSmallFrom(a, k, i + 1, p \div LimbBase)

\* a * k, for a limb k
BMulSmall(a, k) == IF k = 0 THEN <<>> ELSE BMulSmallFrom(a, k, 1, 0)

ZeroLimbs(n) == [i \in 1..n |-> 0]

RECURSIVE BMulFrom(_, _, _)
BMulFrom(a, b, i) ==
    IF i > Len(b) THEN <<>>
    ELSE BAdd(IF b[i] = 0 THEN <<>> ELSE ZeroLimbs(i - 1) \o BMulSmall(a, b[i]),
              BMulFrom(a, b, i + 1))

BMul(a, b) == IF a = <<>> \/ b = <<>> THEN <<>> ELSE BMulFrom(a, b, 1)

\* a * 2^n
BShl(a, n) ==
    IF a = <<>> THEN <<>>
    ELSE ZeroLimbs(n \div LimbBits) \o BMulSmall(a, 2 ^ (n % LimbBits))

RECURSIVE BShrLimbFrom(_, _, _)
BShrLimbFrom(a, r, i) ==
    IF i > Len(a) THEN <<>>
    ELSE <<(a[i] \div (2 ^ r)) + (BLimb(a, i + 1) % (2 ^ r)) * (2 ^ (LimbBits - r))>>
         \o BShrLimbFrom(a, r, i + 1)

\* a \div 2^n
BShr(a, n) ==
    LET q == n \div LimbBits
    IN  IF q >= Len(a) THEN <<>>
        ELSE BTrim(BShrLimbFrom(SubSeq(a, q + 1, Len(a)), n % LimbBits, 1))

BBitLen(a) == IF a = <<>> THEN 0 ELSE LimbBits * (Len(a) - 1) + NatBitLen(a[Len(a)])

BOdd(a) == a # <<>> /\ a[1] % 2 = 1

RECURSIVE NatTrailingZeros(_)
NatTrailingZeros(n) == IF n % 2 = 1 THEN 0 ELSE 1 + NatTrailingZeros(n \div 2)

RECURSIVE BTrailingZeros(_, _)
BTrailingZeros(a, i) ==
    IF a[i] = 0 THEN LimbBits + BTrailingZeros(a, i + 1) ELSE NatTrailingZeros(a[i])

RECURSIVE BDivDigit(_, _, _, _)
RECURSIVE BDivBit(_, _, _, _)
\* n more bits of the quotient of r * 2^n by b, for r < b: the bits qd found
\* so far, then the remainder
BDivDigit(r, b, qd, n) ==
    IF n = 0 THEN [q |-> qd, r |-> r] ELSE BDivBit(BShl(r, 1), b, qd, n)

\* the next bit, from the doubled remainder r2
BDivBit(r2, b, qd, n) ==
    IF BCmp(r2, b) >= 0
    THEN BDivDigit(BSub(r2, b), b, 2 * qd + 1, n - 1)
    ELSE BDivDigit(r2, b, 2 * qd, n - 1)

BDivJoin(qd, rest) == [q |-> rest.q \o <<qd>>, r |-> rest.r]

RECURSIVE BDivLimbs(_, _, _)
RECURSIVE BDivNext(_, _, _)
\* quotient (k limbs) and remainder of r * LimbBase^k by b, for r < b
BDivLimbs(r, b, k) ==
    IF k = 0 THEN [q |-> <<>>, r |-> r]
    ELSE BDivNext(BDivDigit(r, b, 0, LimbBits), b, k)

\* the limbs after the limb d.q, from the remainder d.r
BDivNext(d, b, k) == BDivJoin(d.q, BDivLimbs(d.r, b, k - 1))

BDivLead(lead, res) ==
    [q |-> IF lead = 1 THEN res.q \o <<1>> ELSE BTrim(res.q), r |-> res.r]

BDivFrom(lead, a, b, k) ==
    BDivLead(lead, BDivLimbs(IF lead = 1 THEN BSub(a, b) ELSE a, b, k))

\* quotient and remainder of a * LimbBase^k by b, for 0 < a < 2b
BDivShifted(a, b, k) == BDivFrom(IF BCmp(a, b) >= 0 THEN 1 ELSE 0, a, b, k)

(***************************************************************************)
(* binary64 values.  A finite value is s * m * 2^e with s in {1, -1}; the  *)
(* stored form has m odd (or m = 0 with e = 0), so zero keeps its sign.    *)
(***************************************************************************)
MantBits == 53

NaN == [k |-> "nan"]
Inf(s) == [k |-> "inf", s |-> s]
IsNaN(v) == v.k = "nan"
IsInf(v) == v.k = "inf"
IsFin(v) == v.k = "fin"
IsZero(v) == v.k = "fin" /\ v.m = <<>>

FZero(s) == [k |-> "fin", s |-> s, m |-> <<>>, e |-> 0]

MkFin(s, m, e) ==
    IF m = <<>> THEN FZero(s)
    ELSE LET tz == BTrailingZeros(m, 1)
         IN  [k |-> "fin", s |-> s, m |-> BShr(m, tz), e |-> e + tz]

FromInt(n) == MkFin(IF n < 0 THEN -1 ELSE 1, BFromNat(IF n < 0 THEN -n ELSE n), 0)

\* kept is the mantissa cut to MantBits bits and c compares what was cut off
\* with half a unit of kept
RoundTie(s, kept, e, sticky, c) ==
    MkFin(s,
          IF c > 0 \/ (c = 0 /\ (sticky \/ BOdd(kept))) THEN BAdd(kept, <<1>>) ELSE kept,
          e)

RoundKept(s, m, e, sticky, d, kept) ==
    RoundTie(s, kept, e + d, sticky,
             BCmp(BSub(m, BShl(kept, d)), BShl(<<1>>, d - 1)))

RoundBits(s, m, e, sticky, len) ==
    IF len <= MantBits THEN MkFin(s, m, e)
    ELSE RoundKept(s, m, e, sticky, len - MantBits, BShr(m, len - MantBits))

\* The double nearest to s * (m + f) * 2^e, where 0 <= f < 1 and f > 0 iff
\* sticky (round to nearest, ties to even).  With sticky, m has more than
\* MantBits bits.
Round(s, m, e, sticky) == RoundBits(s, m, e, sticky, BBitLen(m))

Neg(v) == IF IsNaN(v) THEN NaN ELSE [v EXCEPT !.s = -v.s]

fabs(v) == IF IsNaN(v) THEN NaN ELSE [v EXCEPT !.s = 1]

Min2(x, y) == IF x < y THEN x ELSE y

\* the sum of sa * ma * 2^e and sb * mb * 2^e, c comparing ma with mb; an
\* exact zero sum is +0
AddSigned(sa, sb, ma, mb, e, c) ==
    Round(IF sa = sb \/ c > 0 THEN sa ELSE IF c < 0 THEN sb ELSE 1,
          IF sa = sb THEN BAdd(ma, mb)
          ELSE IF c > 0 THEN BSub(ma, mb)
          ELSE IF c < 0 THEN BSub(mb, ma)
          ELSE <<>>,
          e, FALSE)

AddAligned(sa, sb, ma, mb, e) == AddSigned(sa, sb, ma, mb, e, BCmp(ma, mb))

\* a + b
Add(a, b) ==
    IF IsNaN(a) \/ IsNaN(b) THEN NaN
    ELSE IF IsInf(a) THEN (IF IsInf(b) /\ b.s # a.s THEN NaN ELSE a)
    ELSE IF IsInf(b) THEN b
    ELSE IF a.m = <<>> /\ b.m = <<>> THEN FZero(IF a.s = b.s THEN a.s ELSE 1)
    ELSE IF a.m = <<>> THEN b
    ELSE IF b.m = <<>> THEN a
    ELSE AddAligned(a.s, b.s,
                    BShl(a.m, a.e - Min2(a.e, b.e)),
                    BShl(b.m, b.e - Min2(a.e, b.e)),
                    Min2(a.e, b.e))

\* a - b
Sub(a, b) == Add(a, Neg(b))

\* a * b
Mul(a, b) ==
    IF IsNaN(a) \/ IsNaN(b) THEN NaN
    ELSE IF IsInf(a) \/ IsInf(b)
         THEN (IF IsZero(a) \/ IsZero(b) THEN NaN ELSE Inf(a.s * b.s))
    ELSE Round(a.s * b.s, BMul(a.m, b.m), a.e + b.e, FALSE)

\* limbs of a quotient: more than MantBits + 1 bits, so that Round sees the
\* round bit and the remainder decides the rest
QuotLimbs == (MantBits + 2 + LimbBits - 1) \div LimbBits

DivRound(s, e, res) == Round(s, res.q, e, res.r # <<>>)

\* la and lb are the bit lengths of a.m and b.m; the mantissas are aligned
\* to the same length before the division
DivAligned(a, b, la, lb) ==
    DivRound(a.s * b.s,
             a.e - b.e + (la - lb) - QuotLimbs * LimbBits,
             BDivShifted(IF la < lb THEN BShl(a.m, lb - la) ELSE a.m,
                         IF lb < la THEN BShl(b.m, la - lb) ELSE b.m,
                         QuotLimbs))

\* a / b
Div(a, b) ==
    IF IsNaN(a) \/ IsNaN(b) THEN NaN
    ELSE IF IsInf(a) THEN (IF IsInf(b) THEN NaN ELSE Inf(a.s * b.s))
    ELSE IF IsInf(b) THEN FZero(a.s * b.s)
    ELSE IF b.m = <<>> THEN (IF a.m = <<>> THEN NaN ELSE Inf(a.s * b.s))
    ELSE IF a.m = <<>> THEN FZero(a.s * b.s)
    ELSE IF b.m = <<1>> THEN [a EXCEPT !.s = a.s * b.s, !.e = a.e - b.e]
    ELSE DivAligned(a, b, BBitLen(a.m), BBitLen(b.m))

\* the sign class of a: -2, -1, 0, 1, 2 for -inf, negative, zero, positive,
\* +inf
SignClass(a) == IF IsInf(a) THEN 2 * a.s ELSE IF a.m = <<>> THEN 0 ELSE a.s

OrderSigned(a, b, sa, sb) ==
    IF sa < sb THEN -1
    ELSE IF sa > sb THEN 1
    ELSE IF sa = 0 \/ IsInf(a) THEN 0
    ELSE sa * BCmp(BShl(a.m, a.e - Min2(a.e, b.e)), BShl(b.m, b.e - Min2(a.e, b.e)))

\* -1, 0 or 1 as a < b, a == b, a > b, for a and b not NaN
Order(a, b) == OrderSigned(a, b, SignClass(a), SignClass(b))

Lt(a, b) == ~IsNaN(a) /\ ~IsNaN(b) /\ Order(a, b) < 0
Gt(a, b) == Lt(b, a)
Le(a, b) == ~IsNaN(a) /\ ~IsNaN(b) /\ Order(a, b) <= 0
Ge(a, b) == Le(b, a)
Eq(a, b) == ~IsNaN(a) /\ ~IsNaN(b) /\ Order(a, b) = 0

Zero == FZero(1)
One == FromInt(1)
Two == FromInt(2)
Three == FromInt(3)
PosInf == Inf(1)
NegInf == Inf(-1)
\* std::numeric_limits<double>::epsilon()
Epsilon == MkFin(1, <<1>>, 1 - MantBits)

(***************************************************************************)
(* Geometric primitives (geometry.cpp).  A point is [x, y], an edge        *)
(* [a, b], a circle [center, radius], a triangle [a, b, c].                *)
(***************************************************************************)
Point(x, y) == [x |-> x, y |-> y]
Edge(a, b) == [a |-> a, b |-> b]
Circle(center, radius) == [center |-> center, radius |-> radius]
Triangle(a, b, c) == [a |-> a, b |-> b, c |-> c]

\* point::operator==
PointEq(p, other) ==
    IF Eq(p.x, other.x) /\ Eq(p.y, other.y) THEN TRUE
    ELSE /\ Le(fabs(Sub(p.x, other.x)), Epsilon)
         /\ Le(fabs(Sub(p.y, other.y)), Epsilon)

\* point::finite
finite(p) == ~Eq(fabs(p.x), PosInf) /\ ~Eq(fabs(p.y), PosInf)

\* the quotient of point::slope, from dx = a.x - b.x and dy = a.y - b.y
SlopeOf(dx, dy) == IF Eq(dx, Zero) THEN PosInf ELSE Div(dy, dx)

\* point::slope
slope(a, b) == SlopeOf(Sub(a.x, b.x), Sub(a.y, b.y))

\* point::midpoint
midpoint(a, b) == Point(Div(Add(a.x, b.x), Two), Div(Add(a.y, b.y), Two))

SumOfSquares(dx, dy) == Add(Mul(dx, dx), Mul(dy, dy))

\* point::distance_squared
distance_squared(p, a) == SumOfSquares(Sub(p.x, a.x), Sub(p.y, a.y))

\* circle::contains
contains(circ, p) ==
    Lt(SumOfSquares(Sub(p.x, circ.center.x), Sub(p.y, circ.center.y)), circ.radius)

\* circle::infinite
infinite(circ) == Eq(circ.radius, PosInf)

\* triangle::valid
valid(t) ==
    IF ~finite(t.a) \/ ~finite(t.b) \/ ~finite(t.c) THEN FALSE
    ELSE LET area == Div(Sub(Mul(Sub(t.b.x, t.a.x), Sub(t.c.y, t.a.y)),
                             Mul(Sub(t.c.x, t.a.x), Sub(t.b.y, t.a.y))), Two)
         IN  Gt(fabs(area), Epsilon)

\* triangle::has_vertex
has_vertex(t, p) == PointEq(t.a, p) \/ PointEq(t.b, p) \/ PointEq(t.c, p)

\* std::min
StdMin(x, y) == IF Lt(y, x) THEN y ELSE x

\* the circle circumcircle returns for a triangle that is not valid
SentinelCircle == Circle(Point(Zero, Zero), PosInf)

\* circumcircle, from the circumcenter: the smallest of the three squared
\* distances is the radius
CircumRadius(t, center) ==
    Circle(center,
           StdMin(StdMin(distance_squared(t.a, center), distance_squared(t.b, center)),
                  distance_squared(t.c, center)))

\* circumcircle, from x = (b2 - b1) / (m1 - m2): y = m1 * x + b1
CircumCenter(t, m1, b1, x) == CircumRadius(t, Point(x, Add(Mul(m1, x), b1)))

\* circumcircle, from the bisectors y = m1 * x + b1 and y = m2 * x + b2
CircumIntersect(t, m1, m2, b1, b2) ==
    CircumCenter(t, m1, b1, Div(Sub(b2, b1), Sub(m1, m2)))

\* circumcircle, from the slopes m1, m2 of the two bisectors
CircumBisectors(t, midpoint_1, m1, midpoint_2, m2) ==
    CircumIntersect(t, m1, m2,
                    Sub(midpoint_1.y, Mul(m1, midpoint_1.x)),
                    Sub(midpoint_2.y, Mul(m2, midpoint_2.x)))

\* circumcircle, from the two edges chosen: their midpoints and slopes
CircumEdges(t, midpoint_1, slope_1, midpoint_2, slope_2) ==
    CircumBisectors(t, midpoint_1, Div(FromInt(-1), slope_1),
                       midpoint_2, Div(FromInt(-1), slope_2))

\* circumcircle, from the three slopes: a horizontal first edge (a, b), or
\* else a horizontal second edge (b, c), gives way to the edge (a, c)
CircumSlopes(t, slope_ab, slope_bc, slope_ac) ==
    LET first  == Eq(slope_ab, Zero)
        second == ~first /\ Eq(slope_bc, Zero)
    IN  CircumEdges(t,
                    IF first THEN midpoint(t.a, t.c) ELSE midpoint(t.a, t.b),
                    IF first THEN slope_ac ELSE slope_ab,
                    IF second THEN midpoint(t.a, t.c) ELSE midpoint(t.b, t.c),
                    IF second THEN slope_ac ELSE slope_bc)

\* triangle::circumcircle
circumcircle(t) ==
    IF ~valid(t) THEN SentinelCircle
    ELSE CircumSlopes(t, slope(t.a, t.b), slope(t.b, t.c), slope(t.a, t.c))

\* triangle::edges
edges(t) == <<Edge(t.a, t.b), Edge(t.b, t.c), Edge(t.a, t.c)>>

\* triangle::has_edge
has_edge(t, e) ==
    \E i \in 1..3 :
        LET v == edges(t)[i]
        IN  \/ PointEq(v.a, e.a) /\ PointEq(v.b, e.b)
            \/ PointEq(v.a, e.b) /\ PointEq(v.b, e.a)

\* triangle::operator==
TriangleEq(t, other) ==
    PointEq(t.a, other.a) /\ PointEq(t.b, other.b) /\ PointEq(t.c, other.c)

(***************************************************************************)
(* The symbolic super-triangle and the half-plane test (delaunay.cpp,      *)
(* which follows geometry.cpp in src/src/geometry.cpp).                    *)
(***************************************************************************)
\* delaunay::super_triangle
super_triangle ==
    Triangle(Point(NegInf, NegInf), Point(Zero, PosInf), Point(PosInf, Zero))

BoolInt(b) == IF b THEN 1 ELSE 0

\* halfplane_contains with one finite vertex f; v1 and v2 are infinite
HalfplaneOneFinite(p, f, v1, v2) ==
    IF Eq(v1.y, PosInf) \/ Eq(v2.y, PosInf)
    THEN IF Eq(v1.x, PosInf) \/ Eq(v2.x, PosInf)
         THEN Gt(Add(p.y, p.x), Add(f.y, f.x))
         ELSE Gt(Sub(p.y, Mul(Three, p.x)), Sub(f.y, Mul(Three, f.x)))
    ELSE Lt(Sub(p.y, Div(p.x, Three)), Sub(f.y, Div(f.x, Three)))

\* the side of the line y = m * x + b on which lhs = p.y - m * p.x lies, for
\* the infinite vertex f
HalfplaneSide(f, m, b, lhs) ==
    IF Eq(f.y, PosInf) THEN Gt(lhs, b)
    ELSE IF Eq(f.x, PosInf)
         THEN (IF Ge(m, Zero) THEN Lt(lhs, b) ELSE Gt(lhs, b))
         ELSE (IF Ge(m, One) THEN Gt(lhs, b) ELSE Lt(lhs, b))

HalfplaneTangent(p, f, v1, m) ==
    HalfplaneSide(f, m, Sub(v1.y, Mul(m, v1.x)), Sub(p.y, Mul(m, p.x)))

\* halfplane_contains with one infinite vertex f; v1 and v2 are finite
HalfplaneTwoFinite(p, f, v1, v2) == HalfplaneTangent(p, f, v1, slope(v1, v2))

\* halfplane_contains, from a, b, c: whether t.a, t.b, t.c are finite
HalfplaneCase(t, p, a, b, c) ==
    LET finite_points == BoolInt(a) + BoolInt(b) + BoolInt(c)
    IN  IF finite_points = 0 THEN TRUE
        ELSE IF finite_points = 1 THEN
            HalfplaneOneFinite(p,
                               IF a THEN t.a ELSE IF b THEN t.b ELSE t.c,
                               IF a THEN t.b ELSE t.a,
                               IF a \/ b THEN t.c ELSE t.b)
        ELSE IF finite_points = 2 THEN
            HalfplaneTwoFinite(p,
                               IF ~a THEN t.a ELSE IF ~b THEN t.b ELSE t.c,
                               IF ~a THEN t.b ELSE IF ~b THEN t.a ELSE t.b,
                               IF ~a \/ ~b THEN t.c ELSE t.a)
        ELSE FALSE

\* delaunay::halfplane_contains
halfplane_contains(t, p) == HalfplaneCase(t, p, finite(t.a), finite(t.b), finite(t.c))

(***************************************************************************)
(* delaunay::triangulate, one step per input point.                        *)
(***************************************************************************)
\* the test of the first loop of an insertion, from t's circumcircle
BadFor(t, p, circ) ==
    IF ~infinite(circ) THEN contains(circ, p) ELSE halfplane_contains(t, p)

\* the test of the first loop of an insertion: t is invalidated by p
IsBad(t, p) == BadFor(t, p, circumcircle(t))

\* the bad_set of an insertion, in the order of the triangulation
BadSet(tris, p) == SelectSeq(tris, LAMBDA t : IsBad(t, p))

\* edge k of bad triangle i is shared with another entry of the bad set
SharedEdge(bad, i, k) ==
    \E j \in 1..Len(bad) : j # i /\ has_edge(bad[j], edges(bad[i])[k])

RECURSIVE PolygonFrom(_, _, _)
\* the polygon: the edges not shared, in the order of the two loops
PolygonFrom(bad, i, k) ==
    IF i > Len(bad) THEN <<>>
    ELSE IF k > 3 THEN PolygonFrom(bad, i + 1, 1)
    ELSE (IF SharedEdge(bad, i, k) THEN <<>> ELSE <<edges(bad[i])[k]>>)
         \o PolygonFrom(bad, i, k + 1)

Polygon(bad) == PolygonFrom(bad, 1, 1)

\* the predicate of the first remove_if: std::find of t in the bad set
InBadSet(bad, t) == \E j \in 1..Len(bad) : TriangleEq(bad[j], t)

RemoveBad(tris, bad) == SelectSeq(tris, LAMBDA t : ~InBadSet(bad, t))

\* the triangles the last loop of an insertion appends
Fan(poly, p) == [j \in 1..Len(poly) |-> Triangle(poly[j].a, poly[j].b, p)]

\* the final predicate with the third super-triangle vertex left out: the
\* fault C3 rules out
TouchesSuper_TwoVertices(t) ==
    \/ has_vertex(t, super_triangle.a)
    \/ has_vertex(t, super_triangle.b)

\* the predicate of the final remove_if
TouchesSuper(t) ==
    \/ has_vertex(t, super_triangle.a)
    \/ has_vertex(t, super_triangle.b)
    \/ has_vertex(t, super_triangle.c)

\* the final strip left out: the fault C6 rules out
StripSuper_Skipped(tris) == tris

StripSuper(tris) == SelectSeq(tris, LAMBDA t : ~TouchesSuper(t))

(***************************************************************************)
(* Inputs.  Points have small integer coordinates; Candidates lists them   *)
(* in a fixed order and a specification draws from a prefix of it.         *)
(***************************************************************************)
IntPoint(x, y) == Point(FromInt(x), FromInt(y))

Candidates ==
    << IntPoint(1, 0), IntPoint(1, -1), IntPoint(-1, -1), IntPoint(0, -1),
       IntPoint(0, 0), IntPoint(2, 0), IntPoint(-1, 0), IntPoint(0, 1),
       IntPoint(1, 1), IntPoint(-1, 1), IntPoint(2, 1), IntPoint(-1, 2) >>

FirstPoints(n) == {Candidates[i] : i \in 1..Min2(n, Len(Candidates))}

\* points one unit in the last place apart, which point::operator== takes
\* for equal
NearPoints ==
    { Point(One, Neg(One)), Point(Add(One, Epsilon), Neg(One)),
      Point(Add(One, Epsilon), Two), Point(Two, Zero) }

\* Spec: many points, short inputs.  SpecDeep: few points, long inputs.
\* SpecNear: the points of NearPoints.
NumPoints == 9
MaxPoints == 3
NumDeep == 4
MaxDeep == 5
MaxNear == 5

VARIABLES
    points,         \* the input points processed so far, in order
    triangulation,  \* std::vector<triangle> triangulation
    bad_set,        \* bad_set of the last insertion
    polygon,        \* polygon of the last insertion
    pc              \* "sweep": in the loop over the points; "done": returned

vars == <<points, triangulation, bad_set, polygon, pc>>

Init ==
    /\ points = <<>>
    /\ triangulation = <<super_triangle>>
    /\ bad_set = <<>>
    /\ polygon = <<>>
    /\ pc = "sweep"

\* one iteration of the loop over the points
Insert(p) ==
    /\ pc = "sweep"
    /\ points' = Append(points, p)
    /\ bad_set' = BadSet(triangulation, p)
    /\ polygon' = Polygon(bad_set')
    /\ triangulation' = RemoveBad(triangulation, bad_set') \o Fan(polygon', p)
    /\ pc' = "sweep"

\* the end of the input: the final remove_if and the return
Strip ==
    /\ pc = "sweep"
    /\ triangulation' = StripSuper(triangulation)
    /\ pc' = "done"
    /\ UNCHANGED <<points, bad_set, polygon>>

Next ==
    \/ \E p \in FirstPoints(NumPoints) : Len(points) < MaxPoints /\ Insert(p)
    \/ Strip

Spec == Init /\ [][Next]_vars

NextDeep ==
    \/ \E p \in FirstPoints(NumDeep) : Len(points) < MaxDeep /\ Insert(p)
    \/ Strip

SpecDeep == Init /\ [][NextDeep]_vars

NextNear ==
    \/ \E p \in NearPoints : Len(points) < MaxNear /\ Insert(p)
    \/ Strip

SpecNear == Init /\ [][NextNear]_vars

RECURSIVE Sweep(_, _, _)
\* the triangulation after the loop has processed ps[i], ..., ps[Len(ps)]
Sweep(tris, ps, i) ==
    IF i > Len(ps) THEN tris
    ELSE LET bad == BadSet(tris, ps[i])
         IN  Sweep(RemoveBad(tris, bad) \o Fan(Polygon(bad), ps[i]), ps, i + 1)

\* delaunay::triangulate as a function of the whole input
triangulate(ps) == StripSuper(Sweep(<<super_triangle>>, ps, 1))

(***************************************************************************)
(* Properties.                                                             *)
(***************************************************************************)
Last(seq) == seq[Len(seq)]

Vertices(t) == {t.a, t.b, t.c}

\* twice the signed area of (p, q, r), exact for the integer inputs
Cross(p, q, r) ==
    Sub(Mul(Sub(q.x, p.x), Sub(r.y, p.y)), Mul(Sub(r.x, p.x), Sub(q.y, p.y)))

\* all points of ps lie on one common line
AllOnOneLine(ps) ==
    \A i, j, k \in 1..Len(ps) : Eq(Cross(ps[i], ps[j], ps[k]), Zero)

\* three finite vertices that triangle::valid rejects
FiniteCollinear(t) == finite(t.a) /\ finite(t.b) /\ finite(t.c) /\ ~valid(t)

\* the step is an insertion (one iteration of the loop over the points)
Inserted == pc' = "sweep" /\ Len(points') = Len(points) + 1

\* C1: no input point lies strictly inside the circumcircle of a returned
\* triangle (the check of the test helper valid_triangulation).
C1_Delaunay ==
    pc = "done" =>
        \A i \in 1..Len(triangulation) : \A j \in 1..Len(points) :
            ~contains(circumcircle(triangulation[i]), points[j])

\* C2: every returned triangle is valid (finite vertices, |area| > epsilon).
C2_OutputValid ==
    pc = "done" => \A i \in 1..Len(triangulation) : valid(triangulation[i])

\* C3: every vertex of every returned triangle is an input point, and none
\* is a vertex of the super-triangle.
C3_VertexClosure ==
    pc = "done" =>
        \A i \in 1..Len(triangulation) : \A v \in Vertices(triangulation[i]) :
            /\ \E j \in 1..Len(points) : v = points[j]
            /\ v \notin Vertices(super_triangle)

C3_Witness ==
    /\ pc = "done"
    /\ Len(points) = 3
    /\ Len(triangulation) = 1
    /\ valid(triangulation[1])

\* C4: an input whose points all lie on one line returns no triangle.
C4_CollinearEmpty ==
    (pc = "done" /\ AllOnOneLine(points)) => triangulation = <<>>

\* C5: three points that are not collinear return exactly one triangle.
C5_TripleOneTriangle ==
    (pc = "done" /\ Len(points) = 3 /\ ~AllOnOneLine(points))
        => Len(triangulation) = 1

\* C6: with fewer than 3 input points every triangle of the sweep has a
\* vertex of the super-triangle, and nothing is returned.
C6_FewPointsEmpty ==
    Len(points) < 3 =>
        /\ pc = "sweep" => \A i \in 1..Len(triangulation) :
                               Vertices(triangulation[i]) \cap Vertices(super_triangle) # {}
        /\ pc = "done" => triangulation = <<>>

C6_Witness ==
    /\ pc = "done"
    /\ Len(points) = 2
    /\ points[1] # points[2]
    /\ triangulation = <<>>

\* C7: the circle circumcircle returns for a triangle that is not valid
\* contains none of the (finite) input points under circle::contains.
C7_SentinelContainsNothing ==
    \A i \in 1..Len(triangulation) : \A j \in 1..Len(points) :
        ~valid(triangulation[i]) =>
            ~contains(circumcircle(triangulation[i]), points[j])

\* C8: an insertion never puts a triangle with three finite collinear
\* vertices in the bad set, and such a triangle of the triangulation is
\* still in it after the insertion.
C8_CollinearNeverBad ==
    [][Inserted =>
        /\ \A i \in 1..Len(bad_set') : ~FiniteCollinear(bad_set'[i])
        /\ \A i \in 1..Len(triangulation) :
               FiniteCollinear(triangulation[i]) =>
                   /\ ~halfplane_contains(triangulation[i], Last(points'))
                   /\ \E j \in 1..Len(triangulation') :
                          triangulation'[j] = triangulation[i]]_vars

\* edges compared undirected, with the equality of point::operator==
SameUndirected(e, v) ==
    \/ PointEq(v.a, e.a) /\ PointEq(v.b, e.b)
    \/ PointEq(v.a, e.b) /\ PointEq(v.b, e.a)

\* the positions in tris of the triangles that p invalidates
BadPositions(tris, p) == {i \in 1..Len(tris) : IsBad(tris[i], p)}

\* the slots <<i, k>>: edge k of tris[i], for i in bad, that no other triangle
\* of bad has
BoundarySlots(tris, bad) ==
    {s \in bad \X (1..3) :
        ~\E j \in bad \ {s[1]} : \E k \in 1..3 :
            SameUndirected(edges(tris[s[1]])[s[2]], edges(tris[j])[k])}

SlotTriangle(tris, s, p) ==
    Triangle(edges(tris[s[1]])[s[2]].a, edges(tris[s[1]])[s[2]].b, p)

\* the triangles of tris at the positions outside bad, in order
KeptFrom(tris, bad) ==
    LET F[i \in 0..Len(tris)] ==
            IF i = 0 THEN <<>>
            ELSE IF i \in bad THEN F[i - 1] ELSE Append(F[i - 1], tris[i])
    IN  F[Len(tris)]

\* C9: an insertion keeps the triangles that are not bad, in order, removes
\* the bad ones, and appends one triangle (a, b, p) for each edge (a, b) of
\* a bad triangle that no other bad triangle has, and nothing else.
C9_InsertionFrame ==
    [][Inserted =>
        \A bad \in {BadPositions(triangulation, Last(points'))} :
        \A slots \in {BoundarySlots(triangulation, bad)} :
        \A kept \in {KeptFrom(triangulation, bad)} :
            LET p     == Last(points')
                added == SubSeq(triangulation', Len(kept) + 1, Len(triangulation'))
            IN  /\ Len(triangulation') = Len(kept) + Cardinality(slots)
                /\ SubSeq(triangulation', 1, Len(kept)) = kept
                /\ \A s \in slots :
                       Cardinality({i \in 1..Len(added) :
                                        added[i] = SlotTriangle(triangulation, s, p)})
                       = Cardinality({u \in slots :
                                        SlotTriangle(triangulation, u, p)
                                        = SlotTriangle(triangulation, s, p)})]_vars

\* ps without the later repetitions of its points
RECURSIVE Dedup(_, _)
Dedup(ps, i) ==
    IF i > Len(ps) THEN <<>>
    ELSE (IF \E j \in 1..(i - 1) : ps[j] = ps[i] THEN <<>> ELSE <<ps[i]>>)
         \o Dedup(ps, i + 1)

\* C10: inserting a point equal to one inserted before flags no triangle
\* and changes nothing, so the result is that of the input without its
\* repetitions.
C10_DuplicateNoOp ==
    /\ (/\ pc = "sweep"
        /\ Len(points) >= 2
        /\ \E j \in 1..(Len(points) - 1) : points[j] = Last(points))
       => (bad_set = <<>> /\ polygon = <<>>)
    /\ pc = "done" => triangulation = triangulate(Dedup(points, 1))
====
